---- MODULE Spec2Model ----
(***************************************************************************)
(* Model of the Dollarama shift scheduler's engine (docs/scheduler.js):    *)
(* shift expansion, feasibility analysis, the backtracking assignment      *)
(* search with its constraint checks, and the result builder.              *)
(*                                                                         *)
(* One call of Scheduler.generateSchedule is a run.  The recursive         *)
(* assignShifts is modelled with an explicit call stack: one frame per     *)
(* active call, holding the call's idx, its sortedCandidates and the       *)
(* position of its for-loop.                                               *)
(***************************************************************************)
EXTENDS Integers, Sequences, FiniteSets, TLC

VARIABLES
    employees,            \* argument: list of employee records
    shiftTemplates,       \* argument: list of shift templates
    settings,             \* argument: settings object (fields may be absent)
    storedSettings,       \* Storage: the settings object kept under KEYS.SETTINGS
    currentSchedule,      \* app.js: the schedule the page shows, or null
    savedSchedule,        \* Storage: the schedule kept under KEYS.SCHEDULE, or null
    pc,                   \* "idle" | "search" | "done": position of the run
    shifts,               \* generateSchedule: const shifts
    shiftCandidates,      \* buildFeasibilityMatrix: shiftId => [empIds]
    employeeShifts,       \* buildFeasibilityMatrix: empId => [shiftIds]
    constraints,          \* { minRestHours, maxConsecutiveDays } passed to solve
    shiftOrder,           \* solve: shifts sorted by number of candidates
    assignments,          \* solve: shiftId => empId
    employeeHours,        \* solve: empId => hours assigned
    employeeDays,         \* solve: empId => Set of day indices assigned
    employeeShiftsByDay,  \* solve: empId => { dayIndex: shiftId }
    stack,                \* active calls of assignShifts, innermost last
    ret,                  \* value returned by the call that just ended
    result,               \* what generateSchedule returned
    history,              \* results of the runs completed so far
    calls                 \* arguments of the calls of generateSchedule so far

vars == << employees, shiftTemplates, settings, storedSettings, currentSchedule,
           savedSchedule, pc, shifts, shiftCandidates,
           employeeShifts, constraints, shiftOrder, assignments, employeeHours,
           employeeDays, employeeShiftsByDay, stack, ret, result, history, calls >>

-----------------------------------------------------------------------------
(* Bounds of the model *)

\* longest employee list given to the engine
MaxEmployees == 2

\* number of calls of generateSchedule on the same arguments
MaxRuns == 2

-----------------------------------------------------------------------------
(* Program constants *)

DAYS == << "Monday", "Tuesday", "Wednesday", "Thursday", "Friday", "Saturday", "Sunday" >>

\* the week length the constraint checks hard-code (nextDayIdx < 7, i < 7)
WeekLength == 7

DefaultMinRestHours == 10

DefaultMaxConsecutiveDays == 5

\* README, Employment Law Compliance: 24hr/week cap during school term
StudentTermCap == 24

\* JavaScript null / an absent property
Null == << >>

-----------------------------------------------------------------------------
(* Inputs *)

Avail(days, window) ==
    [d \in {DAYS[i] : i \in 1..Len(DAYS)} |-> IF d \in days THEN window ELSE Null]

AllDays == {DAYS[i] : i \in 1..Len(DAYS)}

\* Employee records as Storage keeps them, without the id (addEmployee sets it).
EmployeeProfiles ==
    { [name |-> "Sarah", role |-> "PartTime", maxHours |-> 44, targetHours |-> 40,
       availability |-> Avail(AllDays, <<6, 22>>),
       isInternationalStudent |-> FALSE, onScheduledBreak |-> FALSE],
      [name |-> "Marcus", role |-> "PartTime", maxHours |-> 24, targetHours |-> 16,
       availability |-> Avail({"Monday", "Wednesday", "Friday", "Sunday"}, <<6, 22>>),
       isInternationalStudent |-> FALSE, onScheduledBreak |-> FALSE],
      [name |-> "Kevin", role |-> "PartTime", maxHours |-> 16, targetHours |-> 16,
       availability |-> Avail({"Monday", "Wednesday", "Friday", "Sunday"}, <<6, 22>>),
       isInternationalStudent |-> FALSE, onScheduledBreak |-> FALSE],
      [name |-> "Uzair", role |-> "PartTime", maxHours |-> 30, targetHours |-> 16,
       availability |-> [Avail(AllDays, <<10, 22>>) EXCEPT !["Wednesday"] = <<6, 22>>],
       isInternationalStudent |-> TRUE, onScheduledBreak |-> FALSE],
      [name |-> "Emily", role |-> "FullTime", maxHours |-> 40, targetHours |-> 38,
       availability |-> Avail(AllDays, <<6, 18>>),
       isInternationalStudent |-> TRUE, onScheduledBreak |-> TRUE] }

RECURSIVE SeqsUpTo(_, _)
SeqsUpTo(S, n) ==
    IF n = 0 THEN { << >> }
    ELSE LET shorter == SeqsUpTo(S, n - 1)
         IN  shorter \cup { Append(s, x) : s \in shorter, x \in S }

\* Storage.addEmployee numbers the employees 1, 2, ... as they are added.
WithIds(profiles) ==
    [i \in 1..Len(profiles) |->
        [id |-> i, name |-> profiles[i].name, role |-> profiles[i].role,
         maxHours |-> profiles[i].maxHours, targetHours |-> profiles[i].targetHours,
         availability |-> profiles[i].availability,
         isInternationalStudent |-> profiles[i].isInternationalStudent,
         onScheduledBreak |-> profiles[i].onScheduledBreak]]

EmployeeLists == { WithIds(p) : p \in SeqsUpTo(EmployeeProfiles, MaxEmployees) }

DayPT == [id |-> 1, name |-> "Day-PT", start |-> 6, end |-> 14, role |-> "PartTime"]

LongPT == [id |-> 2, name |-> "Long-PT", start |-> 6, end |-> 22, role |-> "PartTime"]

OpenerPT == [id |-> 3, name |-> "Opener-PT", start |-> 6, end |-> 11, role |-> "PartTime"]

CloserPT == [id |-> 6, name |-> "Closer-PT", start |-> 17, end |-> 21, role |-> "PartTime"]

MorningFT == [id |-> 4, name |-> "Morning-FT", start |-> 6, end |-> 11, role |-> "FullTime"]

\* Template lists as Storage keeps them (saveShift refuses end <= start).
TemplateLists ==
    { << >>, << DayPT >>, << LongPT >>, << CloserPT >>, << CloserPT, OpenerPT >>,
      << DayPT, MorningFT >> }

\* A settings object is a function from the names it holds to their values.
SettingsChoices ==
    { << >>,
      [maxConsecutiveDays |-> 2],
      [minRestHours |-> 17],
      [minRestHours |-> 10, maxConsecutiveDays |-> 7] }

\* Employees of the specification's scenarios: one of a role of their own who
\* is available on Monday only, one with a weekly maximum of a single 8-hour
\* shift, one who can work 8 hours on six days, and one who can open on
\* Wednesday only.
ScenarioProfiles ==
    { [name |-> "Xena", role |-> "X", maxHours |-> 40, targetHours |-> 8,
       availability |-> Avail({"Monday"}, <<6, 22>>),
       isInternationalStudent |-> FALSE, onScheduledBreak |-> FALSE],
      [name |-> "Omar", role |-> "PartTime", maxHours |-> 8, targetHours |-> 8,
       availability |-> Avail(AllDays, <<6, 22>>),
       isInternationalStudent |-> FALSE, onScheduledBreak |-> FALSE],
      [name |-> "Tara", role |-> "PartTime", maxHours |-> 48, targetHours |-> 40,
       availability |-> Avail(AllDays, <<6, 22>>),
       isInternationalStudent |-> FALSE, onScheduledBreak |-> FALSE],
      [name |-> "Uma", role |-> "PartTime", maxHours |-> 30, targetHours |-> 16,
       availability |-> [Avail(AllDays, <<10, 22>>) EXCEPT !["Wednesday"] = <<6, 22>>],
       isInternationalStudent |-> FALSE, onScheduledBreak |-> FALSE] }

ScenarioEmployeeLists == { WithIds(p) : p \in SeqsUpTo(ScenarioProfiles, MaxEmployees) }

DayX == [id |-> 7, name |-> "Day-X", start |-> 6, end |-> 14, role |-> "X"]

ShortPT == [id |-> 5, name |-> "Short-PT", start |-> 18, end |-> 21, role |-> "PartTime"]

ScenarioTemplateLists ==
    { << >>, << DayX >>, << DayPT >>, << ShortPT >>, << CloserPT, OpenerPT >> }

\* settings objects with explicit zeros
ScenarioSettings ==
    { << >>,
      [minRestHours |-> 0],
      [minRestHours |-> 0, maxConsecutiveDays |-> 7],
      [maxConsecutiveDays |-> 0] }

\* Storage.DEFAULT_SETTINGS: what getSettings returns from a fresh store
DEFAULT_SETTINGS ==
    [minRestHours |-> 10, maxConsecutiveDays |-> 5, weekStartsOn |-> "Monday"]

-----------------------------------------------------------------------------
(* Pure functions of the engine *)

\* settings.x || dflt: a supplied 0 is taken for absent
OrDefaultFalsy(obj, field, dflt) ==
    IF field \in DOMAIN obj /\ obj[field] # 0 THEN obj[field] ELSE dflt

\* settings.x ?? dflt
OrDefault(obj, field, dflt) ==
    IF field \in DOMAIN obj THEN obj[field] ELSE dflt

\* generateWeeklyShifts pushing onto the list of the previous call instead of
\* a fresh one
generateWeeklyShiftsAccumulating(templates) ==
    LET n == Len(templates)
    IN  shifts \o
        [k \in 1..(Len(DAYS) * n) |->
            LET dayIdx   == (k - 1) \div n
                template == templates[((k - 1) % n) + 1]
            IN  [id |-> Len(shifts) + k - 1,
                 templateId |-> template.id,
                 name |-> template.name,
                 day |-> DAYS[dayIdx + 1],
                 dayIndex |-> dayIdx,
                 start |-> template.start,
                 end |-> template.end,
                 hours |-> template.end - template.start,
                 role |-> template.role]]

\* the two loops of generateWeeklyShifts swapped: templates outside, days inside
generateWeeklyShiftsTemplateMajor(templates) ==
    LET n == Len(templates)
    IN  [k \in 1..(Len(DAYS) * n) |->
            LET dayIdx   == (k - 1) % Len(DAYS)
                template == templates[((k - 1) \div Len(DAYS)) + 1]
            IN  [id |-> k - 1,
                 templateId |-> template.id,
                 name |-> template.name,
                 day |-> DAYS[dayIdx + 1],
                 dayIndex |-> dayIdx,
                 start |-> template.start,
                 end |-> template.end,
                 hours |-> template.end - template.start,
                 role |-> template.role]]

generateWeeklyShifts(templates) ==
    LET n == Len(templates)
    IN  [k \in 1..(Len(DAYS) * n) |->
            LET dayIdx   == (k - 1) \div n
                template == templates[((k - 1) % n) + 1]
            IN  [id |-> k - 1,
                 templateId |-> template.id,
                 name |-> template.name,
                 day |-> DAYS[dayIdx + 1],
                 dayIndex |-> dayIdx,
                 start |-> template.start,
                 end |-> template.end,
                 hours |-> template.end - template.start,
                 role |-> template.role]]

\* IsFeasible reading Monday's availability window for every day
IsFeasibleMondayWindow(emp, shift) ==
    LET avail == emp.availability[DAYS[1]]
    IN  /\ emp.role = shift.role
        /\ avail # Null
        /\ ~ (shift.start < avail[1] \/ shift.end > avail[2])

\* IsFeasible without the test of the window's start
IsFeasibleNoStartTest(emp, shift) ==
    LET avail == emp.availability[shift.day]
    IN  /\ emp.role = shift.role
        /\ avail # Null
        /\ ~ (shift.end > avail[2])

\* the three tests of buildFeasibilityMatrix's inner loop
IsFeasible(emp, shift) ==
    LET avail == emp.availability[shift.day]
    IN  /\ emp.role = shift.role
        /\ avail # Null
        /\ ~ (shift.start < avail[1] \/ shift.end > avail[2])

IdsOf(recs) == [i \in 1..Len(recs) |-> recs[i].id]

ShiftIds(shs) == { shs[i].id : i \in 1..Len(shs) }

EmpIds(emps) == { emps[i].id : i \in 1..Len(emps) }

buildShiftCandidates(emps, shs) ==
    [sid \in ShiftIds(shs) |->
        LET shift == CHOOSE s \in { shs[i] : i \in 1..Len(shs) } : s.id = sid
        IN  IdsOf(SelectSeq(emps, LAMBDA e : IsFeasible(e, shift)))]

\* the inverse map built from the role test alone
buildEmployeeShiftsByRole(emps, shs) ==
    [eid \in EmpIds(emps) |->
        LET emp == CHOOSE e \in { emps[i] : i \in 1..Len(emps) } : e.id = eid
        IN  IdsOf(SelectSeq(shs, LAMBDA s : emp.role = s.role))]

buildEmployeeShifts(emps, shs) ==
    [eid \in EmpIds(emps) |->
        LET emp == CHOOSE e \in { emps[i] : i \in 1..Len(emps) } : e.id = eid
        IN  IdsOf(SelectSeq(shs, LAMBDA s : IsFeasible(emp, s)))]

\* the filter taking a shift with a single candidate for unfillable too
UnfillableOrSingle(shs, cands) ==
    LET idxs == SelectSeq([i \in 1..Len(shs) |-> i - 1], LAMBDA idx : Len(cands[idx]) <= 1)
    IN  [i \in 1..Len(idxs) |-> shs[idxs[i] + 1]]

\* shifts.filter((_, idx) => shiftCandidates[idx].length === 0)
Unfillable(shs, cands) ==
    LET idxs == SelectSeq([i \in 1..Len(shs) |-> i - 1], LAMBDA idx : Len(cands[idx]) = 0)
    IN  [i \in 1..Len(idxs) |-> shs[idxs[i] + 1]]

\* Array.prototype.sort is stable: elements with equal keys keep their order.
RECURSIVE InsertByKey(_, _, _)
InsertByKey(sorted, x, key) ==
    IF sorted = << >> THEN << x >>
    ELSE LET last == sorted[Len(sorted)]
         IN  IF key[last] > key[x]
             THEN Append(InsertByKey(SubSeq(sorted, 1, Len(sorted) - 1), x, key), last)
             ELSE Append(sorted, x)

RECURSIVE SortByKey(_, _)
SortByKey(seq, key) ==
    IF seq = << >> THEN << >>
    ELSE InsertByKey(SortByKey(SubSeq(seq, 1, Len(seq) - 1), key), seq[Len(seq)], key)

empMap(emps, id) == CHOOSE e \in { emps[i] : i \in 1..Len(emps) } : e.id = id

shiftMap(shs, id) == CHOOSE s \in { shs[i] : i \in 1..Len(shs) } : s.id = id

\* the comparison turned around: most candidates first
SortShiftsDescending(shs, cands) ==
    LET ids == SortByKey(IdsOf(shs), [sid \in ShiftIds(shs) |-> 0 - Len(cands[sid])])
    IN  [i \in 1..Len(ids) |-> shiftMap(shs, ids[i])]

\* solve: [...shifts].sort((a, b) => candidates of a - candidates of b)
SortShifts(shs, cands) ==
    LET ids == SortByKey(IdsOf(shs), [sid \in ShiftIds(shs) |-> Len(cands[sid])])
    IN  [i \in 1..Len(ids) |-> shiftMap(shs, ids[i])]

\* the gap taken for the target hours alone, without the hours assigned so far
SortCandidatesByTarget(candidates, emps, hours) ==
    SortByKey(candidates, [e \in EmpIds(emps) |-> 0 - empMap(emps, e).targetHours])

\* assignShifts: [...candidates].sort((a, b) => gapB - gapA)
SortCandidates(candidates, emps, hours) ==
    SortByKey(candidates,
              [e \in EmpIds(emps) |-> 0 - (empMap(emps, e).targetHours - hours[e])])

-----------------------------------------------------------------------------
(* Constraint checks *)

EmptyMap == [x \in {} |-> 0]

MapPut(f, k, v) == [x \in (DOMAIN f) \cup {k} |-> IF x = k THEN v ELSE f[x]]

MapDelete(f, k) == [x \in (DOMAIN f) \ {k} |-> f[x]]

\* checkMinRestHours looking at the previous day only
checkMinRestHoursBackOnly(empId, shift, byDay, shs, minRestHours) ==
    LET prevDayIdx == shift.dayIndex - 1
    IN  IF prevDayIdx >= 0 /\ prevDayIdx \in DOMAIN byDay[empId]
        THEN LET prevShift == shiftMap(shs, byDay[empId][prevDayIdx])
                 restHours == (24 - prevShift.end) + shift.start
             IN  ~ (restHours < minRestHours)
        ELSE TRUE

checkMinRestHours(empId, shift, byDay, shs, minRestHours) ==
    LET prevDayIdx == shift.dayIndex - 1
        nextDayIdx == shift.dayIndex + 1
        prevOk ==
            IF prevDayIdx >= 0 /\ prevDayIdx \in DOMAIN byDay[empId]
            THEN LET prevShift == shiftMap(shs, byDay[empId][prevDayIdx])
                     restHours == (24 - prevShift.end) + shift.start
                 IN  ~ (restHours < minRestHours)
            ELSE TRUE
        nextOk ==
            IF nextDayIdx < WeekLength /\ nextDayIdx \in DOMAIN byDay[empId]
            THEN LET nextShift == shiftMap(shs, byDay[empId][nextDayIdx])
                     restHours == (24 - shift.end) + nextShift.start
                 IN  ~ (restHours < minRestHours)
            ELSE TRUE
    IN  prevOk /\ nextOk

\* the loop of checkMaxConsecutiveDays from day i on: the final maxStreak
RECURSIVE StreakFrom(_, _, _, _)
StreakFrom(days, i, currentStreak, maxStreak) ==
    IF ~ (i < WeekLength) THEN maxStreak
    ELSE IF i \in days
         THEN StreakFrom(days, i + 1, currentStreak + 1,
                         IF currentStreak + 1 > maxStreak THEN currentStreak + 1 ELSE maxStreak)
         ELSE StreakFrom(days, i + 1, 0, maxStreak)

\* checkMaxConsecutiveDays counting only the run that ends at the candidate day
RECURSIVE RunEndingAt(_, _)
RunEndingAt(days, d) ==
    IF d >= 0 /\ d \in days THEN 1 + RunEndingAt(days, d - 1) ELSE 0

checkMaxConsecutiveDaysBackOnly(empId, dayIndex, empDays, maxConsecutiveDays) ==
    1 + RunEndingAt(empDays[empId], dayIndex - 1) <= maxConsecutiveDays

checkMaxConsecutiveDays(empId, dayIndex, empDays, maxConsecutiveDays) ==
    LET simulatedDays == empDays[empId] \cup {dayIndex}
    IN  StreakFrom(simulatedDays, 0, 0, 0) <= maxConsecutiveDays

\* check 1 looking up the shift's id where the day index belongs
MaxOneShiftPerDayById(empId, shift) ==
    ~ (shift.id \in employeeDays[empId])

\* check 1 of assignShifts: the employee has no shift on that day yet
MaxOneShiftPerDay(empId, shift) ==
    ~ (shift.dayIndex \in employeeDays[empId])

\* check 2 without the hours of the shift being assigned
MaxWeeklyHoursBeforeShift(empId, shift) ==
    ~ (employeeHours[empId] > empMap(employees, empId).maxHours)

\* check 2 of assignShifts: the shift fits under the employee's weekly hours
MaxWeeklyHours(empId, shift) ==
    ~ (employeeHours[empId] + shift.hours > empMap(employees, empId).maxHours)

\* the four checks of assignShifts's loop body: none fails for (empId, shift)
PassesConstraints(empId, shift) ==
    /\ MaxOneShiftPerDay(empId, shift)
    /\ MaxWeeklyHours(empId, shift)
    /\ checkMinRestHours(empId, shift, employeeShiftsByDay, shifts,
                         constraints.minRestHours)
    /\ checkMaxConsecutiveDays(empId, shift.dayIndex, employeeDays,
                               constraints.maxConsecutiveDays)

-----------------------------------------------------------------------------
(* Result builder *)

RECURSIVE SumHours(_)
SumHours(recs) ==
    IF recs = << >> THEN 0
    ELSE SumHours(SubSeq(recs, 1, Len(recs) - 1)) + recs[Len(recs)].hours

\* buildScheduleResult walking the shifts in the order of the search
buildScheduleResultInSearchOrder(emps, shs, asg) ==
    LET assigned == SelectSeq(shiftOrder, LAMBDA s : s.id \in DOMAIN asg)
    IN  [i \in 1..Len(assigned) |->
            LET shift == assigned[i]
                emp   == empMap(emps, asg[shift.id])
            IN  [employee |-> emp.name,
                 employeeId |-> emp.id,
                 role |-> emp.role,
                 day |-> shift.day,
                 dayIndex |-> shift.dayIndex,
                 shiftName |-> shift.name,
                 start |-> shift.start,
                 end |-> shift.end,
                 hours |-> shift.hours]]

buildScheduleResult(emps, shs, asg) ==
    LET assigned == SelectSeq(shs, LAMBDA s : s.id \in DOMAIN asg)
    IN  [i \in 1..Len(assigned) |->
            LET shift == assigned[i]
                emp   == empMap(emps, asg[shift.id])
            IN  [employee |-> emp.name,
                 employeeId |-> emp.id,
                 role |-> emp.role,
                 day |-> shift.day,
                 dayIndex |-> shift.dayIndex,
                 shiftName |-> shift.name,
                 start |-> shift.start,
                 end |-> shift.end,
                 hours |-> shift.hours]]

\* buildEmployeeSummary keyed by the employee's name instead of the id
buildEmployeeSummaryByName(emps, schedule) ==
    [i \in 1..Len(emps) |->
        LET emp  == emps[i]
            mine == SelectSeq(schedule, LAMBDA s : s.employee = emp.name)
        IN  [id |-> emp.id,
             name |-> emp.name,
             role |-> emp.role,
             scheduledHours |-> SumHours(mine),
             scheduledDays |-> Cardinality({ mine[j].day : j \in 1..Len(mine) }),
             targetHours |-> emp.targetHours,
             maxHours |-> emp.maxHours]]

buildEmployeeSummary(emps, schedule) ==
    [i \in 1..Len(emps) |->
        LET emp  == emps[i]
            mine == SelectSeq(schedule, LAMBDA s : s.employeeId = emp.id)
        IN  [id |-> emp.id,
             name |-> emp.name,
             role |-> emp.role,
             scheduledHours |-> SumHours(mine),
             scheduledDays |-> Cardinality({ mine[j].day : j \in 1..Len(mine) }),
             targetHours |-> emp.targetHours,
             maxHours |-> emp.maxHours]]

Pending == [pending |-> TRUE]

UnfillableResult(unfillable) ==
    [success |-> FALSE, error |-> "UNFILLABLE_SHIFTS", unfillable |-> unfillable]

NoSolutionResult == [success |-> FALSE, error |-> "NO_SOLUTION"]

SuccessResult(emps, shs, asg, cons, elapsed) ==
    LET schedule == buildScheduleResult(emps, shs, asg)
    IN  [success |-> TRUE,
         solveTime |-> elapsed,
         constraints |-> cons,
         stats |-> [totalShifts |-> Len(schedule),
                    totalHours |-> SumHours(schedule),
                    employeesScheduled |->
                        Cardinality({ schedule[i].employee : i \in 1..Len(schedule) })],
         schedule |-> schedule,
         employees |-> buildEmployeeSummary(emps, schedule)]

-----------------------------------------------------------------------------
(* The state machine *)

Init ==
    /\ employees \in EmployeeLists
    /\ shiftTemplates \in TemplateLists
    /\ settings \in SettingsChoices
    /\ storedSettings = DEFAULT_SETTINGS
    /\ currentSchedule = Null
    /\ savedSchedule = Null
    /\ pc = "idle"
    /\ shifts = << >>
    /\ shiftCandidates = EmptyMap
    /\ employeeShifts = EmptyMap
    /\ constraints = EmptyMap
    /\ shiftOrder = << >>
    /\ assignments = EmptyMap
    /\ employeeHours = EmptyMap
    /\ employeeDays = EmptyMap
    /\ employeeShiftsByDay = EmptyMap
    /\ stack = << >>
    /\ ret = "none"
    /\ result = Pending
    /\ history = << >>
    /\ calls = << >>

\* what the engine is given, and the page's state it never touches
inputs == << employees, shiftTemplates, settings, storedSettings, currentSchedule,
             savedSchedule >>

analysis == << shifts, shiftCandidates, employeeShifts, constraints, shiftOrder >>

tracking == << assignments, employeeHours, employeeDays, employeeShiftsByDay >>

\* the base case reached one shift early
AllAssignedOneEarly(order, idx) == idx >= Len(order) - 1

\* assignShifts's base case: all shifts assigned
AllAssigned(order, idx) == idx >= Len(order)

\* the frame of a call assignShifts(shiftOrder, idx, ...) when its loop starts
NewFrame(order, cands, idx, hours) ==
    IF AllAssigned(order, idx)
    THEN [idx |-> idx, sortedCandidates |-> << >>, pos |-> 1]
    ELSE [idx |-> idx,
          sortedCandidates |-> SortCandidates(cands[order[idx + 1].id], employees, hours),
          pos |-> 1]

\* running hours kept from the previous run instead of starting at 0
InitialHoursKept(emps) ==
    IF DOMAIN employeeHours = EmpIds(emps) THEN employeeHours ELSE [e \in EmpIds(emps) |-> 0]

\* solve's initial employeeHours
InitialHours(emps) == [e \in EmpIds(emps) |-> 0]

\* the arguments of a call of generateSchedule
Arguments ==
    [employees |-> employees, shiftTemplates |-> shiftTemplates, settings |-> settings]

\* generateSchedule up to its call of assignShifts, or to the early return
GenerateSchedule ==
    /\ pc = "idle"
    /\ LET shs   == generateWeeklyShifts(shiftTemplates)
           cands == buildShiftCandidates(employees, shs)
           unfillable == Unfillable(shs, cands)
           order == SortShifts(shs, cands)
           hours == InitialHours(employees)
       IN  /\ shifts' = shs
           /\ shiftCandidates' = cands
           /\ employeeShifts' = buildEmployeeShifts(employees, shs)
           /\ constraints' =
                [minRestHours |-> OrDefault(settings, "minRestHours", DefaultMinRestHours),
                 maxConsecutiveDays |->
                     OrDefault(settings, "maxConsecutiveDays", DefaultMaxConsecutiveDays)]
           /\ IF Len(unfillable) > 0
              THEN /\ result' = UnfillableResult(unfillable)
                   /\ history' = Append(history, UnfillableResult(unfillable))
                   /\ pc' = "done"
                   /\ UNCHANGED << shiftOrder, tracking, stack, ret >>
              ELSE /\ shiftOrder' = order
                   /\ assignments' = EmptyMap
                   /\ employeeHours' = hours
                   /\ employeeDays' = [e \in EmpIds(employees) |-> {}]
                   /\ employeeShiftsByDay' = [e \in EmpIds(employees) |-> EmptyMap]
                   /\ stack' = << NewFrame(order, cands, 0, hours) >>
                   /\ ret' = "none"
                   /\ pc' = "search"
                   /\ UNCHANGED << result, history >>
    /\ calls' = Append(calls, Arguments)
    /\ UNCHANGED inputs

Top == stack[Len(stack)]

Pop == SubSeq(stack, 1, Len(stack) - 1)

InLoop ==
    /\ pc = "search"
    /\ ret = "none"
    /\ stack # << >>
    /\ ~ AllAssigned(shiftOrder, Top.idx)

CurShift == shiftOrder[Top.idx + 1]

CurEmp == Top.sortedCandidates[Top.pos]

\* assignShifts, line 179: all shifts assigned
BaseCase ==
    /\ pc = "search"
    /\ ret = "none"
    /\ stack # << >>
    /\ AllAssigned(shiftOrder, Top.idx)
    /\ stack' = Pop
    /\ ret' = "true"
    /\ UNCHANGED << inputs, analysis, tracking, pc, result, history >>
    /\ UNCHANGED calls

\* a rejection after which the day the consecutive-days check simulated stays
\* in the employee's worked-day set
SkipCandidateKeepsSimulatedDay ==
    /\ InLoop
    /\ Top.pos <= Len(Top.sortedCandidates)
    /\ ~ PassesConstraints(CurEmp, CurShift)
    /\ stack' = [stack EXCEPT ![Len(stack)].pos = @ + 1]
    /\ employeeDays' = [employeeDays EXCEPT ![CurEmp] = @ \cup {CurShift.dayIndex}]
    /\ UNCHANGED << inputs, analysis, assignments, employeeHours, employeeShiftsByDay,
                    pc, ret, result, history >>
    /\ UNCHANGED calls

\* a constraint check fails: continue with the next candidate
SkipCandidate ==
    /\ InLoop
    /\ Top.pos <= Len(Top.sortedCandidates)
    /\ ~ PassesConstraints(CurEmp, CurShift)
    /\ stack' = [stack EXCEPT ![Len(stack)].pos = @ + 1]
    /\ UNCHANGED << inputs, analysis, tracking, pc, ret, result, history >>
    /\ UNCHANGED calls

\* an assignment that does not add the shift's hours to the running total
AssignWithoutHours ==
    /\ InLoop
    /\ Top.pos <= Len(Top.sortedCandidates)
    /\ PassesConstraints(CurEmp, CurShift)
    /\ assignments' = MapPut(assignments, CurShift.id, CurEmp)
    /\ employeeHours' = employeeHours
    /\ employeeDays' = [employeeDays EXCEPT ![CurEmp] = @ \cup {CurShift.dayIndex}]
    /\ employeeShiftsByDay' =
         [employeeShiftsByDay EXCEPT ![CurEmp] = MapPut(@, CurShift.dayIndex, CurShift.id)]
    /\ stack' = Append(stack, NewFrame(shiftOrder, shiftCandidates, Top.idx + 1, employeeHours'))
    /\ UNCHANGED << inputs, analysis, pc, ret, result, history >>
    /\ UNCHANGED calls

\* make the assignment and recurse
Assign ==
    /\ InLoop
    /\ Top.pos <= Len(Top.sortedCandidates)
    /\ PassesConstraints(CurEmp, CurShift)
    /\ assignments' = MapPut(assignments, CurShift.id, CurEmp)
    /\ employeeHours' = [employeeHours EXCEPT ![CurEmp] = @ + CurShift.hours]
    /\ employeeDays' = [employeeDays EXCEPT ![CurEmp] = @ \cup {CurShift.dayIndex}]
    /\ employeeShiftsByDay' =
         [employeeShiftsByDay EXCEPT ![CurEmp] = MapPut(@, CurShift.dayIndex, CurShift.id)]
    /\ stack' = Append(stack, NewFrame(shiftOrder, shiftCandidates, Top.idx + 1, employeeHours'))
    /\ UNCHANGED << inputs, analysis, pc, ret, result, history >>
    /\ UNCHANGED calls

\* the loop ran out of candidates: return false
Exhausted ==
    /\ InLoop
    /\ Top.pos > Len(Top.sortedCandidates)
    /\ stack' = Pop
    /\ ret' = "false"
    /\ UNCHANGED << inputs, analysis, tracking, pc, result, history >>
    /\ UNCHANGED calls

\* the recursive call returned true: return true
ReturnTrue ==
    /\ pc = "search"
    /\ ret = "true"
    /\ stack # << >>
    /\ stack' = Pop
    /\ UNCHANGED << inputs, analysis, tracking, pc, ret, result, history >>
    /\ UNCHANGED calls

\* backtracking whose loop does not move on to the next candidate
BacktrackSameCandidate ==
    /\ UNCHANGED calls
    /\ pc = "search"
    /\ ret = "false"
    /\ stack # << >>
    /\ assignments' = MapDelete(assignments, CurShift.id)
    /\ employeeHours' = [employeeHours EXCEPT ![CurEmp] = @ - CurShift.hours]
    /\ employeeDays' = [employeeDays EXCEPT ![CurEmp] = @ \ {CurShift.dayIndex}]
    /\ employeeShiftsByDay' =
         [employeeShiftsByDay EXCEPT ![CurEmp] = MapDelete(@, CurShift.dayIndex)]
    /\ ret' = "none"
    /\ UNCHANGED << inputs, analysis, pc, result, history, stack >>

\* backtracking that leaves the shift in the per-day lookup
BacktrackKeepsLookup ==
    /\ UNCHANGED calls
    /\ pc = "search"
    /\ ret = "false"
    /\ stack # << >>
    /\ assignments' = MapDelete(assignments, CurShift.id)
    /\ employeeHours' = [employeeHours EXCEPT ![CurEmp] = @ - CurShift.hours]
    /\ employeeDays' = [employeeDays EXCEPT ![CurEmp] = @ \ {CurShift.dayIndex}]
    /\ stack' = [stack EXCEPT ![Len(stack)].pos = @ + 1]
    /\ ret' = "none"
    /\ UNCHANGED << inputs, analysis, pc, result, history, employeeShiftsByDay >>

\* backtracking that leaves the day marked as worked
BacktrackKeepsDay ==
    /\ pc = "search"
    /\ ret = "false"
    /\ stack # << >>
    /\ assignments' = MapDelete(assignments, CurShift.id)
    /\ employeeHours' = [employeeHours EXCEPT ![CurEmp] = @ - CurShift.hours]
    /\ employeeShiftsByDay' =
         [employeeShiftsByDay EXCEPT ![CurEmp] = MapDelete(@, CurShift.dayIndex)]
    /\ stack' = [stack EXCEPT ![Len(stack)].pos = @ + 1]
    /\ ret' = "none"
    /\ UNCHANGED << inputs, analysis, pc, result, history, employeeDays >>
    /\ UNCHANGED calls

\* the recursive call returned false: undo the assignment, next candidate
Backtrack ==
    /\ pc = "search"
    /\ ret = "false"
    /\ stack # << >>
    /\ assignments' = MapDelete(assignments, CurShift.id)
    /\ employeeHours' = [employeeHours EXCEPT ![CurEmp] = @ - CurShift.hours]
    /\ employeeDays' = [employeeDays EXCEPT ![CurEmp] = @ \ {CurShift.dayIndex}]
    /\ employeeShiftsByDay' =
         [employeeShiftsByDay EXCEPT ![CurEmp] = MapDelete(@, CurShift.dayIndex)]
    /\ stack' = [stack EXCEPT ![Len(stack)].pos = @ + 1]
    /\ ret' = "none"
    /\ UNCHANGED << inputs, analysis, pc, result, history >>
    /\ UNCHANGED calls

\* solve returns; generateSchedule builds and returns its result
Finish ==
    /\ pc = "search"
    /\ stack = << >>
    /\ ret # "none"
    /\ \E res \in IF ret = "true"
                   THEN { SuccessResult(employees, shifts, assignments, constraints, elapsed) :
                             elapsed \in {0, 1} }
                   ELSE { NoSolutionResult } :
          /\ result' = res
          /\ history' = Append(history, res)
    /\ pc' = "done"
    /\ UNCHANGED << inputs, analysis, tracking, stack, ret >>
    /\ UNCHANGED calls

\* the caller runs the engine again on the same arguments
Rerun ==
    /\ pc = "done"
    /\ Len(history) < MaxRuns
    /\ pc' = "idle"
    /\ result' = Pending
    /\ UNCHANGED << inputs, analysis, tracking, stack, ret, history >>
    /\ UNCHANGED calls

Next ==
    \/ GenerateSchedule
    \/ BaseCase
    \/ SkipCandidate
    \/ Assign
    \/ Exhausted
    \/ ReturnTrue
    \/ Backtrack
    \/ Finish
    \/ Rerun

Spec == Init /\ [][Next]_vars

\* the steps of the search: solve's call of assignShifts is synchronous, so a
\* search that can take a step takes it
SearchStep ==
    \/ BaseCase
    \/ SkipCandidate
    \/ Assign
    \/ Exhausted
    \/ ReturnTrue
    \/ Backtrack

\* the engine with a search that keeps running once it is entered
FairSpec == Init /\ [][Next]_vars /\ WF_vars(SearchStep)

\* the engine called on the inputs of the specification's scenarios
ScenarioInit ==
    /\ employees \in ScenarioEmployeeLists
    /\ shiftTemplates \in ScenarioTemplateLists
    /\ settings \in ScenarioSettings
    /\ storedSettings = DEFAULT_SETTINGS
    /\ currentSchedule = Null
    /\ savedSchedule = Null
    /\ pc = "idle"
    /\ shifts = << >>
    /\ shiftCandidates = EmptyMap
    /\ employeeShifts = EmptyMap
    /\ constraints = EmptyMap
    /\ shiftOrder = << >>
    /\ assignments = EmptyMap
    /\ employeeHours = EmptyMap
    /\ employeeDays = EmptyMap
    /\ employeeShiftsByDay = EmptyMap
    /\ stack = << >>
    /\ ret = "none"
    /\ result = Pending
    /\ history = << >>
    /\ calls = << >>

ScenarioSpec == ScenarioInit /\ [][Next]_vars

-----------------------------------------------------------------------------
(* The page: runScheduler and the settings kept by Storage *)

\* what a settings panel hands to Storage.updateSettings
UpdateChoices ==
    { [maxConsecutiveDays |-> 2], [minRestHours |-> 17] }

\* Object.assign(target, updates)
ObjectAssign(target, updates) ==
    [k \in (DOMAIN target) \cup (DOMAIN updates) |->
        IF k \in DOMAIN updates THEN updates[k] ELSE target[k]]

\* Storage.updateSettings(updates)
UpdateSettings ==
    /\ pc = "idle"
    /\ \E updates \in UpdateChoices :
          storedSettings' = ObjectAssign(storedSettings, updates)
    /\ UNCHANGED << employees, shiftTemplates, settings, currentSchedule, savedSchedule,
                    pc, analysis, tracking, stack, ret, result, history >>
    /\ UNCHANGED calls

\* runScheduler up to its call Scheduler.generateSchedule(employees, shifts):
\* no settings are passed, the parameter takes its default {}
RunScheduler ==
    /\ Len(history) < MaxRuns
    /\ Len(employees) # 0
    /\ Len(shiftTemplates) # 0
    /\ settings = << >>
    /\ GenerateSchedule

\* runScheduler storing and showing whatever generateSchedule returned
ShowResultAlwaysSaves ==
    /\ pc = "done"
    /\ currentSchedule' = result
    /\ savedSchedule' = result
    /\ pc' = "idle"
    /\ result' = Pending
    /\ UNCHANGED << employees, shiftTemplates, settings, storedSettings,
                    analysis, tracking, stack, ret, history >>
    /\ UNCHANGED calls

\* runScheduler after generateSchedule has returned: a success replaces the
\* schedule shown and the schedule stored, a failure is only reported
ShowResult ==
    /\ pc = "done"
    /\ IF result.success
       THEN /\ currentSchedule' = result
            /\ savedSchedule' = result
       ELSE UNCHANGED << currentSchedule, savedSchedule >>
    /\ pc' = "idle"
    /\ result' = Pending
    /\ UNCHANGED << employees, shiftTemplates, settings, storedSettings,
                    analysis, tracking, stack, ret, history >>
    /\ UNCHANGED calls

\* the page after Storage.init, before the first click on Generate
UIInit ==
    /\ employees \in EmployeeLists
    /\ shiftTemplates \in TemplateLists
    /\ settings = << >>
    /\ storedSettings = DEFAULT_SETTINGS
    /\ currentSchedule = Null
    /\ savedSchedule = Null
    /\ pc = "idle"
    /\ shifts = << >>
    /\ shiftCandidates = EmptyMap
    /\ employeeShifts = EmptyMap
    /\ constraints = EmptyMap
    /\ shiftOrder = << >>
    /\ assignments = EmptyMap
    /\ employeeHours = EmptyMap
    /\ employeeDays = EmptyMap
    /\ employeeShiftsByDay = EmptyMap
    /\ stack = << >>
    /\ ret = "none"
    /\ result = Pending
    /\ history = << >>
    /\ calls = << >>

UINext ==
    \/ UpdateSettings
    \/ RunScheduler
    \/ BaseCase
    \/ SkipCandidate
    \/ Assign
    \/ Exhausted
    \/ ReturnTrue
    \/ Backtrack
    \/ Finish
    \/ ShowResult

UISpec == UIInit /\ [][UINext]_vars

\* deleteEmployee(id): Storage.deleteEmployee filters the employee out of the
\* stored list; the others keep their ids
DeleteEmployee ==
    /\ pc = "idle"
    /\ \E id \in EmpIds(employees) :
          employees' = SelectSeq(employees, LAMBDA e : e.id # id)
    /\ UNCHANGED << shiftTemplates, settings, storedSettings, currentSchedule, savedSchedule,
                    pc, analysis, tracking, stack, ret, result, history >>
    /\ UNCHANGED calls

\* the page with its employee list edited between runs
PageNext ==
    \/ DeleteEmployee
    \/ RunScheduler
    \/ BaseCase
    \/ SkipCandidate
    \/ Assign
    \/ Exhausted
    \/ ReturnTrue
    \/ Backtrack
    \/ Finish
    \/ ShowResult

PageSpec == UIInit /\ [][PageNext]_vars

-----------------------------------------------------------------------------
(* A caller that calls the engine with other arguments from run to run *)

ProfileNamed(n) == CHOOSE p \in EmployeeProfiles : p.name = n

\* the argument triples the caller chooses among
CallerArguments ==
    { [employees |-> WithIds(<< ProfileNamed("Sarah"), ProfileNamed("Marcus") >>),
       shiftTemplates |-> << DayPT >>,
       settings |-> << >>],
      [employees |-> WithIds(<< ProfileNamed("Kevin"), ProfileNamed("Sarah") >>),
       shiftTemplates |-> << DayPT >>,
       settings |-> [maxConsecutiveDays |-> 2]],
      [employees |-> WithIds(<< ProfileNamed("Marcus") >>),
       shiftTemplates |-> << DayPT >>,
       settings |-> << >>],
      [employees |-> WithIds(<< ProfileNamed("Sarah") >>),
       shiftTemplates |-> << CloserPT >>,
       settings |-> [minRestHours |-> 10, maxConsecutiveDays |-> 7]] }

\* one call more than a caller repeating its arguments makes: a run on other
\* arguments can lie between two runs on the same
MaxCalls == MaxRuns + 1

\* the caller runs the engine again, on arguments of its choice
ChangeArguments ==
    /\ pc = "done"
    /\ Len(history) < MaxCalls
    /\ \E args \in CallerArguments :
          /\ employees' = args.employees
          /\ shiftTemplates' = args.shiftTemplates
          /\ settings' = args.settings
    /\ pc' = "idle"
    /\ result' = Pending
    /\ UNCHANGED << storedSettings, currentSchedule, savedSchedule, analysis, tracking,
                    stack, ret, history, calls >>

CallerInit ==
    /\ \E args \in CallerArguments :
          /\ employees = args.employees
          /\ shiftTemplates = args.shiftTemplates
          /\ settings = args.settings
    /\ storedSettings = DEFAULT_SETTINGS
    /\ currentSchedule = Null
    /\ savedSchedule = Null
    /\ pc = "idle"
    /\ shifts = << >>
    /\ shiftCandidates = EmptyMap
    /\ employeeShifts = EmptyMap
    /\ constraints = EmptyMap
    /\ shiftOrder = << >>
    /\ assignments = EmptyMap
    /\ employeeHours = EmptyMap
    /\ employeeDays = EmptyMap
    /\ employeeShiftsByDay = EmptyMap
    /\ stack = << >>
    /\ ret = "none"
    /\ result = Pending
    /\ history = << >>
    /\ calls = << >>

CallerNext ==
    \/ GenerateSchedule
    \/ BaseCase
    \/ SkipCandidate
    \/ Assign
    \/ Exhausted
    \/ ReturnTrue
    \/ Backtrack
    \/ Finish
    \/ ChangeArguments

CallerSpec == CallerInit /\ [][CallerNext]_vars

-----------------------------------------------------------------------------
(* What a returned result says *)

Succeeded == pc = "done" /\ result.success

Failed(kind) == pc = "done" /\ ~ result.success /\ result.error = kind

Range(seq) == { seq[i] : i \in 1..Len(seq) }

\* the schedule records of employee e
RecordsOf(e) == { r \in Range(result.schedule) : r.employeeId = e }

\* positions of the schedule records of employee e
PositionsOf(e) == { i \in 1..Len(result.schedule) : result.schedule[i].employeeId = e }

RECURSIVE SumOver(_, _)
SumOver(S, f) ==
    IF S = {} THEN 0
    ELSE LET x == CHOOSE y \in S : TRUE IN f[x] + SumOver(S \ {x}, f)

ScheduledHours(e) ==
    SumOver(PositionsOf(e),
            [i \in 1..Len(result.schedule) |->
                result.schedule[i].end - result.schedule[i].start])

DaysWorked(e) == { r.dayIndex : r \in RecordsOf(e) }

\* the concrete shift a schedule record describes
ShiftOfRecord(r) ==
    CHOOSE sh \in Range(shifts) :
        /\ sh.dayIndex = r.dayIndex
        /\ sh.name = r.shiftName
        /\ sh.start = r.start
        /\ sh.end = r.end

Employee(e) == CHOOSE emp \in Range(employees) : emp.id = e

\* eligibility as the specification words it
Eligible(emp, sh) ==
    /\ emp.role = sh.role
    /\ emp.availability[sh.day] # Null
    /\ emp.availability[sh.day][1] <= sh.start
    /\ sh.end <= emp.availability[sh.day][2]

ConfiguredMinRest ==
    IF "minRestHours" \in DOMAIN settings
    THEN settings.minRestHours ELSE DefaultMinRestHours

ConfiguredMaxConsecutive ==
    IF "maxConsecutiveDays" \in DOMAIN settings
    THEN settings.maxConsecutiveDays ELSE DefaultMaxConsecutiveDays

\* length of the longest run of consecutive day indices in D
LongestRun(D) ==
    LET runs == { k \in 1..WeekLength :
                    \E d \in 0..(WeekLength - k) : \A j \in 0..(k - 1) : d + j \in D }
    IN  IF runs = {} THEN 0 ELSE CHOOSE k \in runs : \A m \in runs : m <= k

-----------------------------------------------------------------------------
(* Claims *)

\* C1: in a successful result no employee appears in two schedule records
\* with the same day.
C1_OneShiftPerDay ==
    Succeeded =>
        \A i, j \in 1..Len(result.schedule) :
            (i # j /\ result.schedule[i].employeeId = result.schedule[j].employeeId)
                => result.schedule[i].dayIndex # result.schedule[j].dayIndex

\* a success in which an employee works one shift of a day and is a
\* candidate of another shift of the same day
C1_Witness ==
    /\ Succeeded
    /\ \E r \in Range(result.schedule) : \E sh \in Range(shifts) :
          /\ sh.dayIndex = r.dayIndex
          /\ sh.id # ShiftOfRecord(r).id
          /\ r.employeeId \in Range(shiftCandidates[sh.id])

\* C2: in a successful result every employee's summed shift duration is at
\* most the employee's maxHours.
C2_WeeklyHoursCap ==
    Succeeded =>
        \A emp \in Range(employees) : ScheduledHours(emp.id) <= emp.maxHours

\* a success in which the cap kept an employee from one more shift: a shift on
\* a day the employee is free and eligible for would exceed maxHours
C2_Witness ==
    /\ Succeeded
    /\ \E emp \in Range(employees) : \E sh \in Range(shifts) :
          /\ ScheduledHours(emp.id) > 0
          /\ emp.id \in Range(shiftCandidates[sh.id])
          /\ sh.dayIndex \notin DaysWorked(emp.id)
          /\ ScheduledHours(emp.id) + sh.hours > emp.maxHours

\* C3: every assigned (employee, shift) pair of a successful result is
\* eligible (role, availability present, window contains the shift), and the
\* search never holds an assignment of an employee outside the shift's
\* candidate list.
C3_AssignedPairsFeasible ==
    /\ Succeeded =>
          \A r \in Range(result.schedule) :
              Eligible(Employee(r.employeeId), ShiftOfRecord(r))
    /\ pc \in {"search", "done"} =>
          \A sid \in DOMAIN assignments :
              assignments[sid] \in Range(shiftCandidates[sid])

\* a success with an employee of the shift's role who is available that day
\* but whose window does not contain the shift
C3_Witness ==
    /\ Succeeded
    /\ \E emp \in Range(employees) : \E sh \in Range(shifts) :
          /\ emp.role = sh.role
          /\ emp.availability[sh.day] # Null
          /\ ~ Eligible(emp, sh)

\* C4: in a successful result, shifts of one employee on adjacent days d and
\* d+1 leave (24 - end of day d) + (start of day d+1) >= the configured
\* minRestHours.
C4_MinRest ==
    Succeeded =>
        \A r1, r2 \in Range(result.schedule) :
            (r1.employeeId = r2.employeeId /\ r2.dayIndex = r1.dayIndex + 1)
                => (24 - r1.end) + r2.start >= ConfiguredMinRest

\* position of shift sid in the search order
OrderPos(sid) == CHOOSE k \in 1..Len(shiftOrder) : shiftOrder[k].id = sid

\* a success in which an employee works adjacent days, the later day's shift was
\* assigned first, and another shift of the earlier day the employee is a
\* candidate of would have left too little rest
C4_Witness ==
    /\ Succeeded
    /\ \E r1, r2 \in Range(result.schedule) : \E sh \in Range(shifts) :
          /\ r1.employeeId = r2.employeeId
          /\ r2.dayIndex = r1.dayIndex + 1
          /\ OrderPos(ShiftOfRecord(r2).id) < OrderPos(ShiftOfRecord(r1).id)
          /\ sh.dayIndex = r1.dayIndex
          /\ r1.employeeId \in Range(shiftCandidates[sh.id])
          /\ (24 - sh.end) + r2.start < ConfiguredMinRest

\* C5: in a successful result every employee's longest run of consecutive
\* worked days is at most the configured maxConsecutiveDays.
C5_MaxConsecutiveDays ==
    Succeeded =>
        \A emp \in Range(employees) :
            LongestRun(DaysWorked(emp.id)) <= ConfiguredMaxConsecutive

\* a success in which an employee is free on a day between two worked days,
\* is a candidate of a shift on it, and working it would join the two runs
\* into one longer than the maximum
C5_Witness ==
    /\ Succeeded
    /\ \E emp \in Range(employees) : \E sh \in Range(shifts) :
          /\ emp.id \in Range(shiftCandidates[sh.id])
          /\ sh.dayIndex \notin DaysWorked(emp.id)
          /\ sh.dayIndex - 1 \in DaysWorked(emp.id)
          /\ sh.dayIndex + 1 \in DaysWorked(emp.id)
          /\ LongestRun(DaysWorked(emp.id) \cup {sh.dayIndex}) > ConfiguredMaxConsecutive

\* the concrete shifts no employee is eligible for
ShiftsWithoutEligible ==
    { sh \in Range(shifts) : ~ \E emp \in Range(employees) : Eligible(emp, sh) }

\* C6: a run has a binary outcome.  On success every concrete shift (7 x the
\* number of templates) has exactly one assigned employee and exactly one
\* schedule record; a failure result carries no schedule, and after
\* NO_SOLUTION no assignment is left.
C6_BinaryOutcome ==
    pc = "done" =>
        IF result.success
        THEN /\ Len(result.schedule) = 7 * Len(shiftTemplates)
             /\ \A d \in 0..6 : \A t \in 1..Len(shiftTemplates) :
                   Cardinality({ i \in 1..Len(result.schedule) :
                                   /\ result.schedule[i].dayIndex = d
                                   /\ result.schedule[i].shiftName = shiftTemplates[t].name
                                   /\ result.schedule[i].start = shiftTemplates[t].start
                                   /\ result.schedule[i].end = shiftTemplates[t].end }) = 1
             /\ \A r \in Range(result.schedule) : r.employeeId \in EmpIds(employees)
             /\ DOMAIN assignments = ShiftIds(shifts)
        ELSE /\ result.error \in {"UNFILLABLE_SHIFTS", "NO_SOLUTION"}
             /\ DOMAIN result \cap {"schedule", "stats", "employees"} = {}
             /\ result.error = "NO_SOLUTION" => assignments = EmptyMap

\* a NO_SOLUTION whose search did commit assignments on the way: the first
\* shift of the search order fits its first candidate
C6_Witness ==
    /\ Failed("NO_SOLUTION")
    /\ Len(shiftOrder) = 14
    /\ \E e \in Range(shiftCandidates[shiftOrder[1].id]) :
          shiftOrder[1].hours <= Employee(e).maxHours
    /\ constraints.maxConsecutiveDays >= 1

\* C7: the result is UNFILLABLE_SHIFTS exactly when some concrete shift has
\* no eligible employee; its unfillable list is exactly those shifts; the
\* search was not started.
C7_UnfillableShifts ==
    pc = "done" =>
        /\ Failed("UNFILLABLE_SHIFTS") <=> ShiftsWithoutEligible # {}
        /\ Failed("UNFILLABLE_SHIFTS") =>
              /\ Range(result.unfillable) = ShiftsWithoutEligible
              /\ Len(result.unfillable) = Cardinality(ShiftsWithoutEligible)
              /\ shiftOrder = << >>
              /\ stack = << >>
              /\ ret = "none"
              /\ assignments = EmptyMap

\* an UNFILLABLE_SHIFTS result that lists some of the shifts and not others
C7_Witness ==
    /\ Failed("UNFILLABLE_SHIFTS")
    /\ Len(result.unfillable) > 0
    /\ Len(result.unfillable) < Len(shifts)

\* the shifts of an assignment (shift id -> employee id) that employee e holds
LoadOf(a, e) == { sh \in Range(shifts) : sh.id \in DOMAIN a /\ a[sh.id] = e }

\* the hard constraints on the set S of shifts held by employee emp
ValidLoad(emp, S) ==
    /\ \A sh \in S : Eligible(emp, sh)
    /\ \A s1, s2 \in S : s1.id # s2.id => s1.dayIndex # s2.dayIndex
    /\ SumOver({ sh.id : sh \in S }, [sid \in ShiftIds(shifts) |-> shiftMap(shifts, sid).hours])
          <= emp.maxHours
    /\ \A s1, s2 \in S :
          s2.dayIndex = s1.dayIndex + 1 => (24 - s1.end) + s2.start >= ConfiguredMinRest
    /\ LongestRun({ sh.dayIndex : sh \in S }) <= ConfiguredMaxConsecutive

\* assignment a breaks no hard constraint
ValidAssignment(a) ==
    \A emp \in Range(employees) : ValidLoad(emp, LoadOf(a, emp.id))

\* the valid assignments of the first k concrete shifts.  Taking shifts away
\* from a valid assignment leaves it valid (durations are positive), so every
\* valid assignment of k shifts extends one of k - 1.
RECURSIVE ValidAssignmentsOf(_)
ValidAssignmentsOf(k) ==
    IF k = 0 THEN { EmptyMap }
    ELSE { b \in { MapPut(a, shifts[k].id, e) :
                     a \in ValidAssignmentsOf(k - 1), e \in EmpIds(employees) } :
             ValidLoad(Employee(b[shifts[k].id]), LoadOf(b, b[shifts[k].id])) }

ExistsValidCompleteAssignment == ValidAssignmentsOf(Len(shifts)) # {}

\* the assignment a successful result reports, as shift id -> employee id
ReportedAssignment ==
    [sid \in { ShiftOfRecord(r).id : r \in Range(result.schedule) } |->
        (CHOOSE r \in Range(result.schedule) : ShiftOfRecord(r).id = sid).employeeId]

\* the result itself is a valid complete assignment
ResultIsValidComplete ==
    /\ Succeeded
    /\ DOMAIN ReportedAssignment = ShiftIds(shifts)
    /\ ValidAssignment(ReportedAssignment)

\* C8: the result is NO_SOLUTION exactly when every concrete shift has a
\* candidate and no complete assignment satisfies one-shift-per-day, the
\* weekly hour cap, minimum rest and maximum consecutive days.  (A result
\* that is itself a valid complete assignment shows that one exists.)
C8_NoSolutionIffNoneExists ==
    pc = "done" =>
        (Failed("NO_SOLUTION") <=>
            /\ ShiftsWithoutEligible = {}
            /\ ~ (ResultIsValidComplete \/ ExistsValidCompleteAssignment))

\* a NO_SOLUTION in which every shift had at least two candidates
C8_Witness ==
    /\ Failed("NO_SOLUTION")
    /\ Len(shifts) > 0
    /\ \A sh \in Range(shifts) : Len(shiftCandidates[sh.id]) >= 2

Kind(r) == IF r.success THEN "success" ELSE r.error

\* the shift-to-employee map of a successful result
AssignmentMapOf(r) ==
    { << rec.dayIndex, rec.shiftName, rec.employeeId >> : rec \in Range(r.schedule) }

\* C9: two runs on the same employees, templates and settings return the
\* same kind of outcome and, on success, the same assignment map.
C9_Determinism ==
    \A i, j \in 1..Len(history) :
        /\ Kind(history[i]) = Kind(history[j])
        /\ history[i].success => AssignmentMapOf(history[i]) = AssignmentMapOf(history[j])

\* two completed successful runs that used two employees and whose results
\* differ (in the solve time)
C9_Witness ==
    /\ Len(history) = 2
    /\ history[1].success
    /\ history[1] # history[2]
    /\ history[2].stats.employeesScheduled >= 2

\* C10: an international student who is not on a scheduled break is held to
\* the term cap of 24 hours instead of maxHours.
C10_RestrictedCap ==
    Succeeded =>
        \A emp \in Range(employees) :
            (emp.isInternationalStudent /\ ~ emp.onScheduledBreak)
                => ScheduledHours(emp.id) <= StudentTermCap

\* README, Employment Law Compliance: minimum shift length, default 4 hours
DefaultMinShiftLength == 4

\* C11: no schedule record of a successful result is for a shift shorter than
\* the minimum shift length.
C11_MinShiftLength ==
    Succeeded =>
        \A r \in Range(result.schedule) : r.end - r.start >= DefaultMinShiftLength

\* README, Ontario Break Law: an unpaid break after 4 hours of work
BreakTriggerHours == 4

\* README, Ontario Break Law: the unpaid break lasts 30 minutes
BreakMinutes == 30

\* C12: every schedule record of a successful result reports paid hours: gross
\* hours less the unpaid break when the shift is at least the break-trigger
\* length, gross hours otherwise.
C12_PaidHours ==
    Succeeded =>
        \A r \in Range(result.schedule) :
            /\ "paidHours" \in DOMAIN r
            /\ IF r.hours >= BreakTriggerHours
               THEN /\ 60 * r.paidHours = 60 * r.hours - BreakMinutes
                    /\ r.paidHours # r.hours
               ELSE r.paidHours = r.hours

\* Scenario A's input: one employee of role X available on Monday 6-22 only,
\* one template of role X from 6 to 14
ScenarioA ==
    /\ Len(employees) = 1
    /\ employees[1].role = "X"
    /\ employees[1].availability = Avail({"Monday"}, <<6, 22>>)
    /\ Len(shiftTemplates) = 1
    /\ shiftTemplates[1].role = "X"
    /\ shiftTemplates[1].start = 6
    /\ shiftTemplates[1].end = 14

\* C13 as claimed: Scenario A ends in success, with the employee on the
\* Monday shift and 8 scheduled hours in total.
C13_ScenarioA_AsClaimed ==
    (ScenarioA /\ pc = "done") =>
        /\ result.success
        /\ \E r \in Range(result.schedule) :
              r.employeeId = employees[1].id /\ r.day = "Monday"
        /\ result.stats.totalHours = 8

\* C13, amended: the template is expanded to all seven days, so Scenario A
\* ends in UNFILLABLE_SHIFTS listing the six shifts of Tuesday to Sunday; the
\* employee is the only candidate of the Monday shift; there is no schedule.
C13_ScenarioA ==
    (ScenarioA /\ pc = "done") =>
        /\ Failed("UNFILLABLE_SHIFTS")
        /\ [i \in 1..Len(result.unfillable) |-> result.unfillable[i].day]
              = << "Tuesday", "Wednesday", "Thursday", "Friday", "Saturday", "Sunday" >>
        /\ \A i \in 1..Len(result.unfillable) :
              /\ result.unfillable[i].start = 6
              /\ result.unfillable[i].end = 14
              /\ result.unfillable[i].role = "X"
        /\ \E sh \in Range(shifts) :
              /\ sh.day = "Monday"
              /\ shiftCandidates[sh.id] = << employees[1].id >>
        /\ "schedule" \notin DOMAIN result
        /\ assignments = EmptyMap

\* a completed run of Scenario A
C13_Witness == ScenarioA /\ pc = "done" /\ Len(history) = 1

\* the 8-hour shifts employee e is a candidate of
EightHourShiftsOf(e) ==
    { sh \in Range(shifts) : sh.hours = 8 /\ e \in Range(shiftCandidates[sh.id]) }

C15_SettingsDefaults ==
    pc = "done" =>
        /\ "success" \in DOMAIN result
        /\ constraints.minRestHours =
              IF "minRestHours" \in DOMAIN settings THEN settings.minRestHours ELSE 10
        /\ constraints.maxConsecutiveDays =
              IF "maxConsecutiveDays" \in DOMAIN settings
              THEN settings.maxConsecutiveDays ELSE 5
        /\ result.success => result.constraints = constraints
        /\ ("maxConsecutiveDays" \in DOMAIN settings /\ shifts # << >>)
              => (settings.maxConsecutiveDays = 0 => ~ result.success)

\* a success under an explicit minRestHours = 0 in which an employee has less
\* than the default 10 hours of rest between shifts on adjacent days
C15_Witness ==
    /\ Succeeded
    /\ "minRestHours" \in DOMAIN settings
    /\ settings.minRestHours = 0
    /\ result.constraints.minRestHours = 0
    /\ \E r1, r2 \in Range(result.schedule) :
          /\ r1.employeeId = r2.employeeId
          /\ r2.dayIndex = r1.dayIndex + 1
          /\ (24 - r1.end) + r2.start < DefaultMinRestHours

\* C16: a schedule generated from the page keeps the minimum rest and the
\* maximum of consecutive days that Storage holds (the values last stored by
\* Storage.updateSettings).
C16_StoredSettingsEnforced ==
    Succeeded =>
        /\ \A r1, r2 \in Range(result.schedule) :
              (r1.employeeId = r2.employeeId /\ r2.dayIndex = r1.dayIndex + 1)
                  => (24 - r1.end) + r2.start >= storedSettings.minRestHours
        /\ \A emp \in Range(employees) :
              LongestRun(DaysWorked(emp.id)) <= storedSettings.maxConsecutiveDays

\* C17: the expansion holds one concrete shift for each of the 7 days Monday
\* to Sunday and each template, day-major then in template order; the shift
\* of day d and template t has dayIndex d in 0..6, the template's role, start,
\* end and name, hours = end - start and the template's id as back-reference;
\* the ids of the shifts are pairwise different; no templates, no shifts.
C17_Expansion ==
    pc \in {"search", "done"} =>
        LET n == Len(shiftTemplates)
            week == << "Monday", "Tuesday", "Wednesday", "Thursday", "Friday",
                       "Saturday", "Sunday" >>
        IN  /\ Len(shifts) = 7 * n
            /\ \A d \in 0..6 : \A t \in 1..n :
                  LET sh == shifts[d * n + t]
                  IN  /\ sh.day = week[d + 1]
                      /\ sh.dayIndex = d
                      /\ sh.role = shiftTemplates[t].role
                      /\ sh.start = shiftTemplates[t].start
                      /\ sh.end = shiftTemplates[t].end
                      /\ sh.name = shiftTemplates[t].name
                      /\ sh.hours = shiftTemplates[t].end - shiftTemplates[t].start
                      /\ sh.templateId = shiftTemplates[t].id
            /\ \A i, j \in 1..Len(shifts) : i # j => shifts[i].id # shifts[j].id
            /\ n = 0 => shifts = << >>

\* a completed run on two templates that differ in role, start and end
C17_Witness ==
    /\ pc = "done"
    /\ Len(shiftTemplates) = 2
    /\ Len(shifts) = 14
    /\ shiftTemplates[1].role # shiftTemplates[2].role
    /\ shiftTemplates[1].end # shiftTemplates[2].end

C19_ScheduleInExpansionOrder ==
    Succeeded =>
        /\ Len(result.schedule) = Len(shifts)
        /\ \A i \in 1..Len(result.schedule) :
              LET r  == result.schedule[i]
                  sh == shifts[i]
              IN  /\ r.day = sh.day
                  /\ r.dayIndex = sh.dayIndex
                  /\ r.shiftName = sh.name
                  /\ r.start = sh.start
                  /\ r.end = sh.end
                  /\ r.hours = sh.hours
                  /\ r.employeeId = assignments[sh.id]
                  /\ r.employee = Employee(assignments[sh.id]).name
        /\ \A i, j \in 1..Len(result.schedule) :
              i < j => result.schedule[i].dayIndex <= result.schedule[j].dayIndex

\* a success whose search assigned the shifts in another order than the
\* expansion's: the first shift assigned is not Monday's first
C19_Witness ==
    /\ Succeeded
    /\ Len(shifts) > 0
    /\ shiftOrder # shifts
    /\ shiftOrder[1].dayIndex > 0

\* C20: in a successful result stats.employeesScheduled is the number of
\* distinct employee ids with at least one record, stats.totalHours the sum of
\* the records' durations and stats.totalShifts the number of concrete shifts.
C20_Stats ==
    Succeeded =>
        /\ result.stats.employeesScheduled =
              Cardinality({ r.employeeId : r \in Range(result.schedule) })
        /\ result.stats.totalHours =
              SumOver(1..Len(result.schedule),
                      [i \in 1..Len(result.schedule) |->
                          result.schedule[i].end - result.schedule[i].start])
        /\ result.stats.totalShifts = Len(shifts)

\* C21: the employee summary of a successful result has one row per input
\* employee, in input order; a row's scheduledHours is the sum of the
\* durations of the employee's records and its scheduledDays the number of
\* days worked, both 0 for an employee without a shift; the rows'
\* scheduledHours add up to stats.totalHours.
C21_EmployeeSummary ==
    Succeeded =>
        /\ Len(result.employees) = Len(employees)
        /\ \A i \in 1..Len(employees) :
              LET row == result.employees[i]
                  emp == employees[i]
              IN  /\ row.id = emp.id
                  /\ row.name = emp.name
                  /\ row.targetHours = emp.targetHours
                  /\ row.maxHours = emp.maxHours
                  /\ row.scheduledHours = ScheduledHours(emp.id)
                  /\ row.scheduledDays = Cardinality(DaysWorked(emp.id))
                  /\ RecordsOf(emp.id) = {} =>
                        (row.scheduledHours = 0 /\ row.scheduledDays = 0)
        /\ SumOver(1..Len(result.employees),
                   [i \in 1..Len(result.employees) |-> result.employees[i].scheduledHours])
              = result.stats.totalHours

\* a success with one employee who holds shifts and one who holds none
C21_Witness ==
    /\ Succeeded
    /\ \E e1, e2 \in EmpIds(employees) :
          /\ RecordsOf(e1) # {}
          /\ RecordsOf(e2) = {}

\* a result without its solve time
Outcome(r) ==
    IF r.success
    THEN [success |-> TRUE, constraints |-> r.constraints, stats |-> r.stats,
          schedule |-> r.schedule, employees |-> r.employees]
    ELSE r

\* C22: when generateSchedule has returned, its arguments are what they were
\* at the call; and a run returns what the first run, of a fresh engine,
\* returned on the same arguments, whatever ran in between.
C22_NoStateAcrossRuns ==
    /\ pc = "done" => calls[Len(calls)] = Arguments
    /\ \A i, j \in 1..Len(history) :
          calls[i] = calls[j] => Outcome(history[i]) = Outcome(history[j])

\* a successful third run on the arguments of the first, after a run on
\* other arguments that ended differently
C22_Witness ==
    /\ Len(history) = 3
    /\ pc = "done"
    /\ calls[1] = calls[3]
    /\ calls[2] # calls[1]
    /\ history[3].success
    /\ Kind(history[2]) # Kind(history[1])

\* position of the shift with id sid in the expansion
ExpansionPos(sid) == CHOOSE k \in 1..Len(shifts) : shifts[k].id = sid

\* the search order holds every concrete shift once, by ascending number of
\* candidates and, among equals, in expansion order; the call at depth k
\* works on the k-th shift of the order
ScarcityOrder ==
    /\ Len(shiftOrder) = Len(shifts)
    /\ Range(shiftOrder) = Range(shifts)
    /\ \A i, j \in 1..Len(shiftOrder) :
          i < j =>
              LET ci == Len(shiftCandidates[shiftOrder[i].id])
                  cj == Len(shiftCandidates[shiftOrder[j].id])
              IN  /\ ci <= cj
                  /\ ci = cj => ExpansionPos(shiftOrder[i].id) < ExpansionPos(shiftOrder[j].id)
    /\ \A k \in 1..Len(stack) : stack[k].idx = k - 1

\* C23: the search takes the shifts by ascending number of candidates, ties in
\* expansion order; the shift at depth k is the k-th of that order; the order
\* does not change while the search runs.
C23_ScarcityOrder ==
    [][ /\ pc' = "search" => ScarcityOrder'
        /\ pc = "search" => shiftOrder' = shiftOrder ]_vars

\* a search three calls deep whose order differs from the expansion and holds
\* both shifts with equally many candidates and shifts with fewer than others
C23_Witness ==
    /\ pc = "search"
    /\ Len(stack) >= 3
    /\ shiftOrder # shifts
    /\ \E i, j \in 1..Len(shiftOrder) :
          /\ i < j
          /\ Len(shiftCandidates[shiftOrder[i].id]) < Len(shiftCandidates[shiftOrder[j].id])
    /\ \E i, j \in 1..Len(shiftOrder) :
          /\ i < j
          /\ Len(shiftCandidates[shiftOrder[i].id]) = Len(shiftCandidates[shiftOrder[j].id])

\* the employee the call at depth m has committed its shift to
CommittedAt(m) == stack[m].sortedCandidates[stack[m].pos]

\* the hours employee e held when the call at depth k was entered: those of
\* the shifts committed by the calls above it
HoursAtEntry(k, e) ==
    SumOver({ m \in 1..(k - 1) : CommittedAt(m) = e },
            [m \in 1..Len(stack) |-> shiftOrder[m].hours])

GapAtEntry(k, e) == Employee(e).targetHours - HoursAtEntry(k, e)

\* position of employee e in the candidate list of the shift of depth k
CandidatePos(k, e) ==
    CHOOSE i \in 1..Len(shiftCandidates[shiftOrder[k].id]) :
        shiftCandidates[shiftOrder[k].id][i] = e

\* every call in progress holds the candidates of its shift, each once, by
\* descending gap at its entry and, among equal gaps, in candidate-list order
CandidateOrder ==
    \A k \in 1..Len(stack) :
        stack[k].idx < Len(shiftOrder) =>
            LET sc    == stack[k].sortedCandidates
                cands == shiftCandidates[shiftOrder[k].id]
                gap   == [i \in 1..Len(sc) |-> GapAtEntry(k, sc[i])]
            IN  /\ Len(sc) = Len(cands)
                /\ Range(sc) = Range(cands)
                /\ \A i, j \in 1..Len(sc) :
                      i < j =>
                          /\ gap[i] >= gap[j]
                          /\ gap[i] = gap[j]
                                => CandidatePos(k, sc[i]) < CandidatePos(k, sc[j])

\* C24: at each depth the candidates of the shift are tried by descending
\* (targetHours - hours assigned at entry to the depth), ties in candidate-list
\* order, one after the other from the first.
C24_CandidateOrder ==
    /\ [](pc = "search" => CandidateOrder)
    /\ [][ /\ (pc = "search" /\ pc' = "search") =>
                 \A k \in 1..Len(stack) :
                     k <= Len(stack') =>
                         /\ stack'[k].sortedCandidates = stack[k].sortedCandidates
                         /\ stack'[k].pos \in { stack[k].pos, stack[k].pos + 1 }
           /\ (pc' = "search" /\ Len(stack') > Len(stack)) =>
                 stack'[Len(stack')].pos = 1 ]_vars

\* a call that tries an employee with the lower target first, ahead of the
\* candidate-list order, because of the hours already assigned
C24_Witness ==
    /\ pc = "search"
    /\ \E k \in 1..Len(stack) :
          /\ stack[k].idx < Len(shiftOrder)
          /\ Len(stack[k].sortedCandidates) >= 2
          /\ stack[k].sortedCandidates # shiftCandidates[shiftOrder[k].id]
          /\ Employee(stack[k].sortedCandidates[1]).targetHours
                < Employee(stack[k].sortedCandidates[2]).targetHours

\* the depths among the first n whose committed employee is e
CommittedTo(n, e) == { m \in 1..n : CommittedAt(m) = e }

\* the search state made of the commitments of the calls at depths 1..n alone
CommittedAssignments(n) ==
    [sid \in { shiftOrder[m].id : m \in 1..n } |->
        CommittedAt(CHOOSE m \in 1..n : shiftOrder[m].id = sid)]

CommittedHours(n) ==
    [e \in EmpIds(employees) |->
        SumOver(CommittedTo(n, e), [m \in 1..Len(stack) |-> shiftOrder[m].hours])]

CommittedDays(n) ==
    [e \in EmpIds(employees) |-> { shiftOrder[m].dayIndex : m \in CommittedTo(n, e) }]

CommittedLookup(n) ==
    [e \in EmpIds(employees) |->
        [d \in { shiftOrder[m].dayIndex : m \in CommittedTo(n, e) } |->
            shiftOrder[CHOOSE m \in CommittedTo(n, e) : shiftOrder[m].dayIndex = d].id]]

\* the search state is the one in which the call at depth n + 1 was entered
AsAtEntryOf(n) ==
    /\ assignments = CommittedAssignments(n)
    /\ employeeHours = CommittedHours(n)
    /\ employeeDays = CommittedDays(n)
    /\ employeeShiftsByDay = CommittedLookup(n)

\* C25: when a call of assignShifts has returned false, the assignment map,
\* the running hours, the worked days and the per-day lookups are what they
\* were when the call was entered, and so they are again after the caller's
\* undo; after NO_SOLUTION the assignment map is empty, all hours are 0 and
\* no day is marked.
C25_BacktrackUndoes ==
    /\ (pc = "search" /\ ret = "false") => AsAtEntryOf(Len(stack))
    /\ (pc = "search" /\ ret = "none" /\ stack # << >>) => AsAtEntryOf(Len(stack) - 1)
    /\ Failed("NO_SOLUTION") =>
          /\ assignments = EmptyMap
          /\ \A e \in EmpIds(employees) :
                /\ employeeHours[e] = 0
                /\ employeeDays[e] = {}
                /\ employeeShiftsByDay[e] = EmptyMap

\* a call at depth 2 or deeper is at its next candidate after undoing the
\* commitment to the one before, who passes the constraint checks
C25_Witness ==
    /\ pc = "search"
    /\ ret = "none"
    /\ Len(stack) >= 2
    /\ Top.pos >= 2
    /\ Top.pos <= Len(Top.sortedCandidates)
    /\ assignments # EmptyMap
    /\ PassesConstraints(Top.sortedCandidates[Top.pos - 1], CurShift)

\* the outermost call of assignShifts has returned
SearchEnded == pc = "search" /\ stack = << >> /\ ret # "none"

\* C26: every run terminates and returns one result: a search that was entered
\* ends after finitely many steps, either with every shift assigned or with the
\* first shift's candidates exhausted and nothing left committed; the step
\* after the end of the search returns, and a run adds exactly one result,
\* which it adds when it returns.
C26_Termination ==
    /\ (pc = "search") ~>
          /\ SearchEnded
          /\ \/ ret = "true" /\ DOMAIN assignments = { shifts[i].id : i \in 1..Len(shifts) }
             \/ ret = "false" /\ assignments = EmptyMap
    /\ [][ /\ Len(history') \in { Len(history), Len(history) + 1 }
           /\ (Len(history') = Len(history) + 1) <=> (pc # "done" /\ pc' = "done")
           /\ (pc # "done" /\ pc' = "done") =>
                 /\ history'[Len(history')] = result'
                 /\ "success" \in DOMAIN result'
                 /\ SubSeq(history', 1, Len(history)) = history
           /\ SearchEnded => pc' = "done"
           /\ (pc = "search" /\ pc' = "done") => SearchEnded ]_vars

\* two runs on fourteen shifts have returned, the search having undone
\* commitments on its way: it ended without a solution
C26_Witness ==
    /\ pc = "done"
    /\ Len(history) = 2
    /\ Len(shifts) = 14
    /\ ~ result.success
    /\ result.error = "NO_SOLUTION"

\* position of the employee with identity e in the input list
InputPos(e) == CHOOSE i \in 1..Len(employees) : employees[i].id = e

\* C27: the two maps of the feasibility analysis are inverse to each other and
\* say who is eligible: e is a candidate of s iff s is in e's list iff (e, s)
\* passes role equality, availability presence and window containment; every
\* candidate list is in input order without duplicates.
C27_FeasibilityMaps ==
    pc # "idle" =>
        /\ DOMAIN shiftCandidates = { sh.id : sh \in Range(shifts) }
        /\ DOMAIN employeeShifts = { emp.id : emp \in Range(employees) }
        /\ \A emp \in Range(employees) : \A sh \in Range(shifts) :
              /\ (emp.id \in Range(shiftCandidates[sh.id])) <=>
                    (sh.id \in Range(employeeShifts[emp.id]))
              /\ (emp.id \in Range(shiftCandidates[sh.id])) <=> Eligible(emp, sh)
        /\ \A sh \in Range(shifts) :
              LET cands == shiftCandidates[sh.id]
              IN  \A i \in 1..Len(cands) : \A j \in 1..Len(cands) :
                      i < j => InputPos(cands[i]) < InputPos(cands[j])

\* an analysis in which some shift has two candidates and another has one:
\* an employee is eligible for part of the week only
C27_Witness ==
    /\ pc # "idle"
    /\ \E sh \in Range(shifts) : Len(shiftCandidates[sh.id]) = 2
    /\ \E sh \in Range(shifts) : Len(shiftCandidates[sh.id]) = 1
    /\ \E e \in DOMAIN employeeShifts :
          /\ employeeShifts[e] # << >>
          /\ Len(employeeShifts[e]) < Len(shifts)

\* the number of shifts the search has committed: one per call of assignShifts
\* below the running one, and every shift once the base case was reached
Depth ==
    CASE ret = "true"  -> Len(shiftOrder)
      [] ret = "false" -> Len(stack)
      [] OTHER         -> Len(stack) - 1

\* C28: in every state of the search the bookkeeping agrees with the assignment
\* map: an employee's running hours are the sum of the durations of the shifts
\* assigned to them, the worked-day set is the set of those shifts' day
\* indices, the per-day lookup maps each such day to that shift, and the
\* assigned shifts are the first k shifts of the search order at depth k.
C28_Bookkeeping ==
    pc = "search" =>
        /\ DOMAIN assignments = { shiftOrder[i].id : i \in 1..Depth }
        /\ \A e \in EmpIds(employees) :
              LET held == LoadOf(assignments, e)
              IN  /\ employeeHours[e] = SumOver(held, [sh \in held |-> sh.end - sh.start])
                  /\ employeeDays[e] = { sh.dayIndex : sh \in held }
                  /\ DOMAIN employeeShiftsByDay[e] = { sh.dayIndex : sh \in held }
                  /\ \A sh \in held : employeeShiftsByDay[e][sh.dayIndex] = sh.id

\* the search is three shifts deep after an undo, and two employees hold
\* shifts
C28_Witness ==
    /\ pc = "search"
    /\ ret = "none"
    /\ Len(stack) >= 4
    /\ \E k \in 1..Len(stack) : stack[k].pos >= 2
    /\ Cardinality({ assignments[sid] : sid \in DOMAIN assignments }) = 2
    /\ \E e \in EmpIds(employees) : Cardinality(LoadOf(assignments, e)) >= 2

\* C29: every partial assignment the search reaches breaks no hard constraint
\* (one shift per day, weekly hour cap, minimum rest on adjacent days, maximum
\* consecutive days, eligibility), and a step of the search that neither
\* commits nor undoes an assignment, a constraint check that rejects a
\* candidate among them, changes none of the search's bookkeeping.
C29_PartialAssignmentsValid ==
    /\ [](pc = "search" => ValidAssignment(assignments))
    /\ [][ (pc = "search" /\ pc' = "search" /\ assignments' = assignments) =>
              /\ employeeHours' = employeeHours
              /\ employeeDays' = employeeDays
              /\ employeeShiftsByDay' = employeeShiftsByDay
              /\ analysis' = analysis
              /\ inputs' = inputs ]_vars

\* on top of a partial assignment a candidate was checked and rejected, and
\* the loop has moved on
C29_Witness ==
    /\ InLoop
    /\ assignments # EmptyMap
    /\ Top.pos >= 2
    /\ ~ PassesConstraints(Top.sortedCandidates[Top.pos - 1], CurShift)

\* C30: over the runs of the page the stored schedule and the schedule shown
\* change only by taking a successful result: a run that fails leaves both as
\* they were, and the engine is never called with an empty employee list or
\* an empty template list.
C30_ScheduleOnlyFromSuccess ==
    /\ [][ (savedSchedule' # savedSchedule \/ currentSchedule' # currentSchedule) =>
              /\ pc = "done"
              /\ result.success
              /\ savedSchedule' = result
              /\ currentSchedule' = result ]_vars
    /\ [](\A i \in 1..Len(calls) :
              /\ Len(calls[i].employees) # 0
              /\ Len(calls[i].shiftTemplates) # 0)
    /\ [](savedSchedule # Null =>
              /\ savedSchedule.success
              /\ savedSchedule \in Range(history)
              /\ currentSchedule = savedSchedule)

\* a failed run has been reported after a successful one, and the schedule of
\* the successful one is still stored and shown
C30_Witness ==
    /\ pc = "idle"
    /\ result = Pending
    /\ Len(history) = 2
    /\ history[1].success
    /\ ~ history[2].success
    /\ savedSchedule = history[1]
    /\ currentSchedule = history[1]

====
